---- MODULE Spec2Model ----
(***************************************************************************)
(* Model of the WaveformScrubber component                                 *)
(* (src/src/components/WaveformScrubber.tsx).                              *)
(*                                                                         *)
(* The component is a React function component.  Its state is the useState *)
(* cells, its props, the listeners it has put on the document, the content *)
(* last drawn on its canvas and the redraw timers it has started.  One     *)
(* action is one browser event (or prop change) together with the render   *)
(* and the effects React runs for it: the state updates of a handler are   *)
(* batched, the component re-renders, and the effects whose dependencies   *)
(* changed run their cleanup and their body before the next event.         *)
(*                                                                         *)
(* JavaScript numbers are modelled as exact fractions extended with NaN,   *)
(* +Infinity and -Infinity, so that x / rect.width with rect.width = 0     *)
(* behaves as it does in the browser.                                      *)
(***************************************************************************)
EXTENDS Integers, Sequences, FiniteSets

\* Bounds of the model.
MaxX == 2
MaxWidth == 1
MaxDuration == 1
MaxTimers == 1
\* The number of bars generateWaveform makes (bars = 150 in the source).
BarCount == 2
\* The largest duration, in seconds, of the renders studied on their own.
MaxRenderTime == 4
\* The largest whole number of seconds given to formatTime.
MaxSeconds == 3600
\* The largest number of fragments a typed search text is made of.
MaxFragments == 3
\* The position of the pointer or finger in the events of the study of widget
\* instances.
PointerX == 1

\* clientX - rect.left of a pointer or touch event, the container's width in
\* pixels, and the duration prop in seconds.
Xs == -1 .. MaxX
Widths == 0 .. MaxWidth
Durations == 0 .. MaxDuration

----------------------------------------------------------------------------
\* JavaScript numbers.

RECURSIVE GCD(_, _)
GCD(a, b) == IF b = 0 THEN a ELSE GCD(b, a % b)

Abs(a) == IF a < 0 THEN -a ELSE a

\* The fraction n / d (d > 0) in lowest terms.
Fin(n, d) ==
  LET g == GCD(Abs(n), d)
  IN  [k |-> "fin", n |-> n \div g, d |-> d \div g]

NaN == [k |-> "nan", n |-> 0, d |-> 1]
PosInf == [k |-> "pinf", n |-> 0, d |-> 1]
NegInf == [k |-> "ninf", n |-> 0, d |-> 1]

Int2Num(i) == Fin(i, 1)

\* a / b for integers a and b >= 0, as the JavaScript operator / computes it.
Div(a, b) ==
  IF b = 0
    THEN IF a > 0 THEN PosInf ELSE IF a < 0 THEN NegInf ELSE NaN
    ELSE Fin(a, b)

\* a <= b for numbers other than NaN.
Leq(a, b) ==
  CASE a.k = "ninf" -> TRUE
    [] b.k = "pinf" -> TRUE
    [] a.k = "pinf" -> FALSE
    [] b.k = "ninf" -> FALSE
    [] OTHER -> a.n * b.d <= b.n * a.d

\* Math.min and Math.max: NaN if either argument is NaN.
MathMin(a, b) ==
  IF a.k = "nan" \/ b.k = "nan" THEN NaN ELSE IF Leq(a, b) THEN a ELSE b

MathMax(a, b) ==
  IF a.k = "nan" \/ b.k = "nan" THEN NaN ELSE IF Leq(a, b) THEN b ELSE a

\* p * i for a number p and an integer i >= 0.
Mul(p, i) ==
  CASE p.k = "nan" -> NaN
    [] p.k = "fin" -> Fin(p.n * i, p.d)
    [] OTHER -> IF i = 0 THEN NaN ELSE p

\* The JavaScript comparison v >= 0 (false for NaN).
Ge0(v) == v.k = "pinf" \/ (v.k = "fin" /\ v.n >= 0)

\* useState(-1): previewTime's value when there is no preview.
MinusOne == Int2Num(-1)

----------------------------------------------------------------------------
\* generateWaveform.  Amplitudes are in thousandths.  The sines of the bar's
\* position and the values of Math.random() are drawn from grids over their
\* ranges: a draw d gives the four sines (s8, s16, s32, s4, in units) and the
\* three random numbers (r1, r2, r3, in thousandths) of one loop iteration.

SinGrid == {-1, 0, 1}
RandGrid == {0, 500, 900}

Draws ==
  [s8 : SinGrid, s16 : SinGrid, s32 : SinGrid, s4 : SinGrid,
   r1 : RandGrid, r2 : {0, 500}, r3 : RandGrid]

Max(a, b) == IF a >= b THEN a ELSE b
Min(a, b) == IF a <= b THEN a ELSE b

\* The amplitude before it is normalised: the three waves and the noise, times
\* the envelope, plus an occasional peak.
RawAmplitude(d) ==
  LET wave1 == d.s8 * 400
      wave2 == d.s16 * 200
      wave3 == d.s32 * 100
      noise == ((d.r1 - 500) * 300) \div 1000
      envelope == d.s4 * 500 + 500
      amplitude == ((wave1 + wave2 + wave3 + noise) * envelope) \div 1000
  IN  IF d.r2 < 50 THEN amplitude + (d.r3 * 400) \div 1000 ELSE amplitude

Normalise_NoMin(a) ==
  Max(100, Abs(a) + 300)

\* Math.max(0.1, Math.min(1.0, Math.abs(amplitude) + 0.3))
Normalise(a) ==
  Max(100, Min(1000, Abs(a) + 300))

\* The amplitude one loop iteration pushes.
Amplitude(d) ==
  Normalise(RawAmplitude(d))

\* A series all of whose bars come from the same draw.
UniformSeries(d) ==
  [i \in 1 .. BarCount |-> Amplitude(d)]

\* The draw with no wave, no noise and no peak.
SilentDraw ==
  [s8 |-> 0, s16 |-> 0, s32 |-> 0, s4 |-> 0, r1 |-> 500, r2 |-> 500, r3 |-> 0]

----------------------------------------------------------------------------
VARIABLES
  mounted,       \* the component is mounted (containerRef.current is set)
  isDragging,    \* useState(false)
  isHovering,    \* useState(false)
  previewTime,   \* useState(-1)
  duration,      \* the duration prop of the last render
  width,         \* container.getBoundingClientRect().width
  docListeners,  \* the component's listeners on document, in registration order
  canvas,        \* what the last drawWaveform call drew
  timers,        \* what the drawWaveform closures waiting in setTimeout will draw
  emitted,       \* the onSeek calls made by the last event
  lastEvent,     \* the last event and the number of document listeners it ran
  pointerOver,   \* the mouse pointer is over the widget
  everDown,      \* a mousedown or touchstart has reached the widget
  waveformData,  \* useState<number[]>([]), in thousandths
  currentTime,   \* the currentTime prop of the last render
  input,         \* the arguments of a function under study
  output,        \* its result, once it has returned
  query,                    \* SearchBar: useState('')
  suggestions,              \* SearchBar: useState<string[]>([])
  showSuggestions,          \* SearchBar: useState(false)
  selectedSuggestionIndex,  \* SearchBar: useState(-1)
  blurTimers,               \* SearchBar: pending onBlur timers
  searched,                 \* SearchBar: the onSearch calls made by the last event
  searchEvent               \* SearchBar: the last event

\* The variables of the scrubber's interaction, of the function studies and of
\* the search bar.
scrubberVars == <<mounted, isDragging, isHovering, previewTime, duration, width,
                  docListeners, canvas, timers, emitted, lastEvent,
                  pointerOver, everDown, waveformData, currentTime>>
fnVars == <<input, output>>
searchVars == <<query, suggestions, showSuggestions, selectedSuggestionIndex,
                blurTimers, searched, searchEvent>>

vars == <<scrubberVars, fnVars, searchVars>>

----------------------------------------------------------------------------
\* The component's code.  A handler runs against the values its closure
\* captured at render time and produces the batched state updates and the
\* onSeek calls of the event: a record u with the fields isDragging,
\* isHovering, previewTime (the state the next render will see) and out (the
\* onSeek calls so far).

\* The closure of the latest render: what the handlers bound in the JSX and
\* the drawWaveform of that render see.
Closure ==
  [isDragging |-> isDragging, isHovering |-> isHovering,
   previewTime |-> previewTime, duration |-> duration]

\* The updates of an event before any handler has run.
NoUpdates ==
  [isDragging |-> isDragging, isHovering |-> isHovering,
   previewTime |-> previewTime, out |-> <<>>]

\* Math.max(0, Math.min(1, x / rect.width)) * duration
PixelToTime(x, w, dur) ==
  Mul(MathMax(Int2Num(0), MathMin(Int2Num(1), Div(x, w))), dur)

\* handleSeek: no container, no call.
HandleSeek(u, x, dur) ==
  IF ~mounted
    THEN u
    ELSE [u EXCEPT !.out = Append(@, PixelToTime(x, width, dur))]

\* handleInteractionStart
HandleInteractionStart(u, x, dur) ==
  HandleSeek([u EXCEPT !.isDragging = TRUE], x, dur)

HandleInteractionMove_Inverted(u, c, x) ==
  IF ~c.isDragging THEN HandleSeek(u, x, c.duration) ELSE u

\* handleInteractionMove, in the closure c of the render that registered it
HandleInteractionMove(u, c, x) ==
  IF c.isDragging THEN HandleSeek(u, x, c.duration) ELSE u

HandleMouseMove_Seeks(u, c, x) ==
  IF ~c.isDragging /\ c.isHovering /\ mounted
    THEN [u EXCEPT !.previewTime = PixelToTime(x, width, c.duration),
                   !.out = Append(@, PixelToTime(x, width, c.duration))]
    ELSE u

\* handleMouseMove (hoverTime, which nothing reads, is left out)
HandleMouseMove(u, c, x) ==
  IF ~c.isDragging /\ c.isHovering /\ mounted
    THEN [u EXCEPT !.previewTime = PixelToTime(x, width, c.duration)]
    ELSE u

HandleEnd_KeepsDragging(u) ==
  [u EXCEPT !.previewTime = MinusOne]

HandleEnd_KeepsPreview(u) ==
  [u EXCEPT !.isDragging = FALSE]

\* handleEnd
HandleEnd(u) ==
  [u EXCEPT !.isDragging = FALSE, !.previewTime = MinusOne]

\* onMouseEnter
OnMouseEnter(u) ==
  [u EXCEPT !.isHovering = TRUE]

OnMouseLeave_KeepsPreview(u) ==
  [u EXCEPT !.isHovering = FALSE]

\* onMouseLeave
OnMouseLeave(u) ==
  [u EXCEPT !.isHovering = FALSE, !.previewTime = MinusOne]

\* The four listeners one run of the drag effect puts on document.  Each is a
\* function of the render the effect ran in and so carries that render's
\* isDragging and duration.
DragListeners(drag, dur) ==
  << [type |-> "mousemove", isDragging |-> drag, duration |-> dur],
     [type |-> "mouseup", isDragging |-> drag, duration |-> dur],
     [type |-> "touchmove", isDragging |-> drag, duration |-> dur],
     [type |-> "touchend", isDragging |-> drag, duration |-> dur] >>

AddListeners_Always(drag, dur, L) ==
  L \o DragListeners(drag, dur)

\* The body of the drag effect.
AddListeners(drag, dur, L) ==
  IF drag THEN L \o DragListeners(drag, dur) ELSE L

RemoveListeners_None(drag, dur, L) ==
  L

\* The cleanup of the drag effect: removes the listeners of the render it
\* was created in.
RemoveListeners(drag, dur, L) ==
  LET Other(l) == ~(l.isDragging = drag /\ l.duration = dur)
  IN  SelectSeq(L, Other)

\* useEffect(..., [isDragging, duration]) after a render with new values.
DragEffect(drag, dur, L) ==
  IF drag = isDragging /\ dur = duration
    THEN L
    ELSE AddListeners(drag, dur, RemoveListeners(isDragging, duration, L))

\* One listener called with an event of the given type at position x.
CallListener(l, type, x, u) ==
  IF l.type # type THEN u
  ELSE IF type \in {"mousemove", "touchmove"} THEN HandleInteractionMove(u, l, x)
  ELSE HandleEnd(u)

\* document dispatches an event to the listeners in registration order.
RECURSIVE Dispatch(_, _, _, _)
Dispatch(L, type, x, u) ==
  IF L = <<>>
    THEN u
    ELSE Dispatch(Tail(L), type, x, CallListener(Head(L), type, x, u))

\* The number of listeners an event of the given type runs.
Ran(type) ==
  LET Match(l) == l.type = type
  IN  Len(SelectSeq(docListeners, Match))

\* What the drawWaveform of the render with closure c draws besides the bars:
\* the playhead, its drag emphasis and the dashed hover line.
Picture(c) ==
  [playhead |-> c.duration > 0,
   dragStyle |-> c.duration > 0 /\ c.isDragging,
   hoverLine |-> c.isHovering /\ Ge0(c.previewTime) /\ c.duration > 0]

\* The canvas after a drawWaveform call that drew p at the width w it read
\* from the container.
Paint(p, w) ==
  [width |-> w, playhead |-> p.playhead, dragStyle |-> p.dragStyle,
   hoverLine |-> p.hoverLine]

\* drawWaveform of the render with closure c, on a container of width w.
DrawWaveform(c, w) ==
  Paint(Picture(c), w)

\* useEffect(() => drawWaveform(), [drawWaveform]): drawWaveform is a new
\* function, and the canvas is redrawn, when one of its dependencies changed.
RedrawEffect(c) ==
  IF c = Closure THEN canvas ELSE DrawWaveform(c, width)

WaveformEffect_OnDuration(c) ==
  IF c.duration # duration
    THEN [i \in 1 .. BarCount |-> 1300 - waveformData[i]]
    ELSE waveformData

\* useEffect(() => generateWaveform(), [generateWaveform]) after a re-render
\* with closure c: generateWaveform is made by useCallback(..., []) and is
\* the same function in every render, so the effect does not run again.
WaveformEffect(c) ==
  waveformData

\* What an event of the scrubber leaves alone.
others == <<currentTime, fnVars, searchVars>>

\* The render and the effects that follow an event with updates u, under the
\* duration prop dur.
Commit(u, dur, ev) ==
  /\ isDragging' = u.isDragging
  /\ isHovering' = u.isHovering
  /\ previewTime' = u.previewTime
  /\ duration' = dur
  /\ docListeners' = IF mounted THEN DragEffect(u.isDragging, dur, docListeners)
                                ELSE docListeners
  /\ canvas' = IF mounted
                 THEN RedrawEffect([isDragging |-> u.isDragging,
                                    isHovering |-> u.isHovering,
                                    previewTime |-> u.previewTime,
                                    duration |-> dur])
                 ELSE canvas
  /\ emitted' = u.out
  /\ lastEvent' = ev
  /\ waveformData' = WaveformEffect([isDragging |-> u.isDragging,
                                     isHovering |-> u.isHovering,
                                     previewTime |-> u.previewTime,
                                     duration |-> dur])

Event(type, x) == [type |-> type, x |-> x, ran |-> Ran(type)]

----------------------------------------------------------------------------
\* The function studies and the search bar while the scrubber is studied.
FnIdle ==
  /\ input = <<>>
  /\ output = <<>>

\* The search bar after construction.
SearchInit ==
  /\ query = <<>>
  /\ suggestions = <<>>
  /\ showSuggestions = FALSE
  /\ selectedSuggestionIndex = -1
  /\ blurTimers = 0
  /\ searched = <<>>
  /\ searchEvent = "mount"

SearchIdle == SearchInit

----------------------------------------------------------------------------
Init ==
  /\ mounted = TRUE
  /\ isDragging = FALSE
  /\ isHovering = FALSE
  /\ previewTime = MinusOne
  /\ duration \in Durations
  /\ width \in Widths
  /\ docListeners = <<>>
  /\ canvas = DrawWaveform([isDragging |-> FALSE, isHovering |-> FALSE,
                            previewTime |-> MinusOne, duration |-> duration],
                           width)
  /\ timers = {}
  /\ emitted = <<>>
  /\ lastEvent = [type |-> "mount", x |-> 0, ran |-> 0]
  /\ pointerOver = FALSE
  /\ everDown = FALSE
  /\ waveformData = UniformSeries(SilentDraw)
  /\ currentTime = 0
  /\ FnIdle
  /\ SearchIdle

\* The events below that are delivered to the container need the pointer or
\* the finger to land on it, so the container has some width.

\* onMouseEnter
MouseEnter ==
  /\ mounted /\ width > 0 /\ ~pointerOver
  /\ Commit(OnMouseEnter(NoUpdates), duration, Event("mouseenter", 0))
  /\ pointerOver' = TRUE
  /\ UNCHANGED <<mounted, width, timers, everDown>>
  /\ UNCHANGED others

\* onMouseLeave
MouseLeave ==
  /\ mounted /\ pointerOver
  /\ Commit(OnMouseLeave(NoUpdates), duration, Event("mouseleave", 0))
  /\ pointerOver' = FALSE
  /\ UNCHANGED <<mounted, width, timers, everDown>>
  /\ UNCHANGED others

\* A mouse move over the widget: onMouseMove, then, as the event bubbles on,
\* the mousemove listeners on document.
MouseMove(x) ==
  /\ mounted /\ width > 0 /\ pointerOver
  /\ Commit(Dispatch(docListeners, "mousemove", x,
                     HandleMouseMove(NoUpdates, Closure, x)),
            duration, Event("mousemove", x))
  /\ UNCHANGED <<mounted, width, timers, pointerOver, everDown>>
  /\ UNCHANGED others

\* A mouse move elsewhere in the document.
DocMouseMove(x) ==
  /\ ~pointerOver
  /\ Commit(Dispatch(docListeners, "mousemove", x, NoUpdates),
            duration, Event("mousemove", x))
  /\ UNCHANGED <<mounted, width, timers, pointerOver, everDown>>
  /\ UNCHANGED others

\* onMouseDown = handleMouseDown
MouseDown(x) ==
  /\ mounted /\ width > 0 /\ pointerOver
  /\ Commit(HandleInteractionStart(NoUpdates, x, duration),
            duration, Event("mousedown", x))
  /\ everDown' = TRUE
  /\ UNCHANGED <<mounted, width, timers, pointerOver>>
  /\ UNCHANGED others

\* onTouchStart = handleTouchStart
TouchStart(x) ==
  /\ mounted /\ width > 0
  /\ Commit(HandleInteractionStart(NoUpdates, x, duration),
            duration, Event("touchstart", x))
  /\ everDown' = TRUE
  /\ UNCHANGED <<mounted, width, timers, pointerOver>>
  /\ UNCHANGED others

\* A mouseup anywhere in the document.
DocMouseUp ==
  /\ Commit(Dispatch(docListeners, "mouseup", 0, NoUpdates),
            duration, Event("mouseup", 0))
  /\ UNCHANGED <<mounted, width, timers, pointerOver, everDown>>
  /\ UNCHANGED others

\* A touchmove anywhere in the document.
DocTouchMove(x) ==
  /\ Commit(Dispatch(docListeners, "touchmove", x, NoUpdates),
            duration, Event("touchmove", x))
  /\ UNCHANGED <<mounted, width, timers, pointerOver, everDown>>
  /\ UNCHANGED others

\* A touchend anywhere in the document.
DocTouchEnd ==
  /\ Commit(Dispatch(docListeners, "touchend", 0, NoUpdates),
            duration, Event("touchend", 0))
  /\ UNCHANGED <<mounted, width, timers, pointerOver, everDown>>
  /\ UNCHANGED others

\* The player renders the widget with another duration.
DurationChange(d) ==
  /\ mounted /\ d # duration
  /\ Commit(NoUpdates, d, Event("duration", 0))
  /\ UNCHANGED <<mounted, width, timers, pointerOver, everDown>>
  /\ UNCHANGED others

\* The window is resized and the container gets width w: handleResize starts
\* a timer for the drawWaveform of the latest render.
Resize(w) ==
  /\ mounted
  /\ Cardinality(timers) < MaxTimers
  /\ width' = w
  /\ timers' = timers \cup {Picture(Closure)}
  /\ emitted' = <<>>
  /\ lastEvent' = Event("resize", 0)
  /\ UNCHANGED <<mounted, isDragging, isHovering, previewTime, duration,
                 docListeners, canvas, pointerOver, everDown>>
  /\ UNCHANGED <<waveformData, others>>

\* A timer fires: the drawWaveform it holds draws, unless the canvas is gone.
TimerFire(p) ==
  /\ p \in timers
  /\ timers' = timers \ {p}
  /\ canvas' = IF mounted THEN Paint(p, width) ELSE canvas
  /\ emitted' = <<>>
  /\ lastEvent' = Event("timer", 0)
  /\ UNCHANGED <<mounted, isDragging, isHovering, previewTime, duration,
                 width, docListeners, pointerOver, everDown>>
  /\ UNCHANGED <<waveformData, others>>

\* The widget is unmounted: the cleanups of its effects run and its refs are
\* cleared.  Its state cells are kept as they were, so that a later setState
\* on the unmounted component shows.
Unmount ==
  /\ mounted
  /\ mounted' = FALSE
  /\ docListeners' = RemoveListeners(isDragging, duration, docListeners)
  /\ pointerOver' = FALSE
  /\ emitted' = <<>>
  /\ lastEvent' = Event("unmount", 0)
  /\ UNCHANGED <<isDragging, isHovering, previewTime, duration, width,
                 canvas, timers, everDown>>
  /\ UNCHANGED <<waveformData, others>>

Next ==
  \/ MouseEnter
  \/ MouseLeave
  \/ \E x \in Xs : MouseMove(x)
  \/ \E x \in Xs : DocMouseMove(x)
  \/ \E x \in Xs : MouseDown(x)
  \/ \E x \in Xs : TouchStart(x)
  \/ DocMouseUp
  \/ \E x \in Xs : DocTouchMove(x)
  \/ DocTouchEnd
  \/ \E d \in Durations : DurationChange(d)
  \/ \E w \in Widths : Resize(w)
  \/ \E p \in timers : TimerFire(p)
  \/ Unmount

Spec == Init /\ [][Next]_vars

----------------------------------------------------------------------------
\* The life of widget instances: mounts, events at one position, changes of
\* the props and unmounts.

LoudDraw ==
  [s8 |-> 1, s16 |-> 1, s32 |-> 1, s4 |-> 1, r1 |-> 900, r2 |-> 0, r3 |-> 900]

\* Values of the currentTime prop, in seconds.
Times == {0, 1}

\* Series generateWaveform can produce.
SeriesSample == {UniformSeries(SilentDraw), UniformSeries(LoudDraw)}


InitWave ==
  /\ mounted = TRUE
  /\ isDragging = FALSE
  /\ isHovering = FALSE
  /\ previewTime = MinusOne
  /\ duration \in Durations
  /\ width \in Widths
  /\ docListeners = <<>>
  /\ canvas = DrawWaveform([isDragging |-> FALSE, isHovering |-> FALSE,
                            previewTime |-> MinusOne, duration |-> duration],
                           width)
  /\ timers = {}
  /\ emitted = <<>>
  /\ lastEvent = [type |-> "mount", x |-> 0, ran |-> 0]
  /\ pointerOver = FALSE
  /\ everDown = FALSE
  /\ waveformData \in SeriesSample
  /\ currentTime = 0
  /\ FnIdle
  /\ SearchIdle

\* A new instance is mounted after the last one was unmounted: fresh state,
\* first render, generateWaveform and the first drawing.  The timers of the
\* old instance find no canvas and draw nothing.
Mount ==
  /\ ~mounted
  /\ mounted' = TRUE
  /\ isDragging' = FALSE
  /\ isHovering' = FALSE
  /\ previewTime' = MinusOne
  /\ duration' \in Durations
  /\ width' \in Widths
  /\ docListeners' = <<>>
  /\ canvas' = DrawWaveform([isDragging |-> FALSE, isHovering |-> FALSE,
                             previewTime |-> MinusOne, duration |-> duration'],
                            width')
  /\ timers' = {}
  /\ emitted' = <<>>
  /\ lastEvent' = [type |-> "remount", x |-> 0, ran |-> 0]
  /\ pointerOver' = FALSE
  /\ everDown' = FALSE
  /\ waveformData' \in SeriesSample
  /\ currentTime' = 0
  /\ UNCHANGED <<fnVars, searchVars>>

\* The player renders the widget with another currentTime: drawWaveform is
\* made anew and the redraw effect runs.
TimeChange(t) ==
  /\ mounted /\ t # currentTime
  /\ currentTime' = t
  /\ Commit(NoUpdates, duration, Event("timechange", 0))
  /\ UNCHANGED <<mounted, width, timers, pointerOver, everDown>>
  /\ UNCHANGED <<fnVars, searchVars>>

NextWave ==
  \/ Mount
  \/ MouseEnter
  \/ MouseLeave
  \/ MouseMove(PointerX)
  \/ DocMouseMove(PointerX)
  \/ MouseDown(PointerX)
  \/ TouchStart(PointerX)
  \/ DocMouseUp
  \/ DocTouchMove(PointerX)
  \/ DocTouchEnd
  \/ \E d \in Durations : DurationChange(d)
  \/ \E t \in Times : TimeChange(t)
  \/ \E w \in Widths : Resize(w)
  \/ \E p \in timers : TimerFire(p)
  \/ Unmount

SpecWave == InitWave /\ [][NextWave]_vars

----------------------------------------------------------------------------
\* The bars and the playhead of drawWaveform, as a function of the values the
\* render closes over and of the container's width.

\* const progress = duration > 0 ? currentTime / duration : 0
Progress(ct, dur) ==
  IF dur > 0 THEN Div(ct, dur) ELSE Int2Num(0)

\* pt / dur for a finite number pt and an integer dur > 0.
DivNum(pt, dur) ==
  Fin(pt.n, pt.d * dur)

\* const hoverProgress =
\*   duration > 0 && previewTime >= 0 ? previewTime / duration : -1
HoverProgress(pt, dur) ==
  IF dur > 0 /\ Ge0(pt) THEN DivNum(pt, dur) ELSE MinusOne

BarColor_Strict(i, n, progress, hoverProgress) ==
  LET barPosition == Div(i, n)
  IN  IF /\ Ge0(hoverProgress)
         /\ Leq(barPosition, hoverProgress)
         /\ ~Leq(barPosition, progress)
        THEN "preview"
        ELSE IF Leq(barPosition, progress) /\ barPosition # progress
               THEN "played"
               ELSE "unplayed"

\* The fill style of bar i (from 0) of n.
BarColor(i, n, progress, hoverProgress) ==
  LET barPosition == Div(i, n)
  IN  IF /\ Ge0(hoverProgress)
         /\ Leq(barPosition, hoverProgress)
         /\ ~Leq(barPosition, progress)
        THEN "preview"
        ELSE IF Leq(barPosition, progress)
               THEN "played"
               ELSE "unplayed"

\* The part of drawWaveform that depends on the playback time: the progress,
\* the colours of the bars and the position of the playhead (drawn when
\* duration > 0).
DrawBars(in) ==
  LET progress == Progress(in.currentTime, in.duration)
      hoverProgress == HoverProgress(in.previewTime, in.duration)
  IN  [progress |-> progress,
       colors |-> [b \in 1 .. BarCount |->
                     BarColor(b - 1, BarCount, progress, hoverProgress)],
       playhead |-> in.duration > 0,
       playheadX |-> Mul(progress, in.width)]

RenderInputs ==
  [currentTime : 0 .. MaxRenderTime + 1,
   duration : 0 .. MaxRenderTime,
   previewTime : {MinusOne} \cup {Int2Num(t) : t \in 0 .. MaxRenderTime + 1},
   width : Widths]

\* The scrubber while a function is studied on its own.
ScrubberIdle ==
  /\ mounted = FALSE
  /\ isDragging = FALSE
  /\ isHovering = FALSE
  /\ previewTime = MinusOne
  /\ duration = 0
  /\ width = 0
  /\ docListeners = <<>>
  /\ canvas = <<>>
  /\ timers = {}
  /\ emitted = <<>>
  /\ lastEvent = [type |-> "none", x |-> 0, ran |-> 0]
  /\ pointerOver = FALSE
  /\ everDown = FALSE
  /\ waveformData = <<>>
  /\ currentTime = 0

InitRender ==
  /\ input \in RenderInputs
  /\ output = <<>>
  /\ ScrubberIdle
  /\ SearchIdle

\* One render draws the bars and the playhead.
RenderBars ==
  /\ output = <<>>
  /\ output' = DrawBars(input)
  /\ UNCHANGED <<input, scrubberVars, searchVars>>

\* The player renders the widget with other values.
RenderAgain ==
  /\ output # <<>>
  /\ input' \in RenderInputs
  /\ output' = DrawBars(input')
  /\ UNCHANGED <<scrubberVars, searchVars>>

NextRender ==
  \/ RenderBars
  \/ RenderAgain

SpecRender == InitRender /\ [][NextRender]_vars

----------------------------------------------------------------------------
\* formatTime.  A string is the sequence of its characters.

\* The value undefined, beside the numbers.
Undefined == [k |-> "undefined", n |-> 0, d |-> 1]

Digits == <<"0", "1", "2", "3", "4", "5", "6", "7", "8", "9">>

RECURSIVE NatToString(_)
NatToString(n) ==
  IF n < 10 THEN <<Digits[n + 1]>>
  ELSE NatToString(n \div 10) \o <<Digits[(n % 10) + 1]>>

\* Number.prototype.toString of an integer, NaN or an infinity.
ToString(v) ==
  CASE v.k = "nan" -> <<"N", "a", "N">>
    [] v.k = "pinf" -> <<"I", "n", "f", "i", "n", "i", "t", "y">>
    [] v.k = "ninf" -> <<"-", "I", "n", "f", "i", "n", "i", "t", "y">>
    [] v.k = "fin" /\ v.n >= 0 -> NatToString(v.n)
    [] v.k = "fin" /\ v.n < 0 -> <<"-">> \o NatToString(-v.n)

\* Math.floor
Floor(v) ==
  IF v.k = "fin" THEN Int2Num(v.n \div v.d) ELSE v

\* v % 60: the remainder has the sign of v, and is NaN for an infinite v.
Rem60(v) ==
  CASE v.k = "fin" /\ v.n >= 0 -> Fin(v.n % (60 * v.d), v.d)
    [] v.k = "fin" /\ v.n < 0 -> Fin(-((-v.n) % (60 * v.d)), v.d)
    [] OTHER -> NaN

\* v / 60
Div60(v) ==
  IF v.k = "fin" THEN Fin(v.n, v.d * 60) ELSE v

RECURSIVE PadStart(_, _, _)

PadStart_Never(str, len, ch) == str

\* String.prototype.padStart with a one-character filler.
PadStart(str, len, ch) ==
  IF Len(str) >= len THEN str ELSE PadStart(<<ch>> \o str, len, ch)

\* !seconds || isNaN(seconds)
Falsy(v) ==
  \/ v.k = "undefined"
  \/ v.k = "nan"
  \/ v.k = "fin" /\ v.n = 0

FormatTime(seconds) ==
  IF Falsy(seconds) THEN <<"0", ":", "0", "0">>
  ELSE LET mins == Floor(Div60(seconds))
           secs == Floor(Rem60(seconds))
       IN  ToString(mins) \o <<":">> \o PadStart(ToString(secs), 2, "0")

FormatInputs ==
  {Int2Num(t) : t \in 0 .. MaxSeconds}
    \cup {Fin(1254, 10), Int2Num(-65), Undefined, NaN, PosInf, NegInf}

InitFormat ==
  /\ input \in FormatInputs
  /\ output = <<>>
  /\ ScrubberIdle
  /\ SearchIdle

\* A time label is rendered.
FormatCall ==
  /\ output = <<>>
  /\ output' = FormatTime(input)
  /\ UNCHANGED <<input, scrubberVars, searchVars>>

NextFormat ==
  FormatCall

SpecFormat == InitFormat /\ [][NextFormat]_vars

----------------------------------------------------------------------------
\* generateWaveform, one loop iteration at a time.  input is the loop's
\* position, output the array data.

\* The values one iteration can push, over the sine and random values.
BarValues == {Amplitude(d) : d \in Draws}

InitGen ==
  /\ input = [i |-> 0, done |-> FALSE]
  /\ output = <<>>
  /\ ScrubberIdle
  /\ SearchIdle

\* for (let i = 0; i < bars; i++) { ... data.push(amplitude) }
GenerateBar ==
  /\ ~input.done
  /\ input.i < BarCount
  /\ \E a \in BarValues : output' = Append(output, a)
  /\ input' = [input EXCEPT !.i = @ + 1]
  /\ UNCHANGED <<scrubberVars, searchVars>>

\* setWaveformData(data), once the loop has ended.
SetWaveformData ==
  /\ ~input.done
  /\ ~(input.i < BarCount)
  /\ waveformData' = output
  /\ input' = [input EXCEPT !.done = TRUE]
  /\ UNCHANGED <<output, mounted, isDragging, isHovering, previewTime,
                 duration, width, docListeners, canvas, timers, emitted,
                 lastEvent, pointerOver, everDown, currentTime, searchVars>>

NextGen ==
  \/ GenerateBar
  \/ SetWaveformData

SpecGen == InitGen /\ [][NextGen]_vars

----------------------------------------------------------------------------
\* SearchBar: generateSuggestions.  A string is the sequence of its characters.

UpperCase ==
  <<"A", "B", "C", "D", "E", "F", "G", "H", "I", "J", "K", "L", "M",
    "N", "O", "P", "Q", "R", "S", "T", "U", "V", "W", "X", "Y", "Z">>

LowerCase ==
  <<"a", "b", "c", "d", "e", "f", "g", "h", "i", "j", "k", "l", "m",
    "n", "o", "p", "q", "r", "s", "t", "u", "v", "w", "x", "y", "z">>

\* String.prototype.toLowerCase
ToLowerCase(str) ==
  [c \in DOMAIN str |->
     IF \E l \in 1 .. 26 : UpperCase[l] = str[c]
       THEN LowerCase[CHOOSE l \in 1 .. 26 : UpperCase[l] = str[c]]
       ELSE str[c]]

\* String.prototype.trim
RECURSIVE Trim(_)
Trim(str) ==
  IF str = <<>> THEN str
  ELSE IF Head(str) = " " THEN Trim(Tail(str))
  ELSE IF str[Len(str)] = " " THEN Trim(SubSeq(str, 1, Len(str) - 1))
  ELSE str

\* String.prototype.includes
Includes(str, part) ==
  \E c \in 1 .. Len(str) - Len(part) + 1 :
    SubSeq(str, c, c + Len(part) - 1) = part

\* genre.split(' ')[0]
RECURSIVE FirstWord(_)
FirstWord(str) ==
  IF str = <<>> \/ Head(str) = " " THEN <<>>
  ELSE <<Head(str)>> \o FirstWord(Tail(str))

musicKeywords ==
  <<<<"s", "o", "n", "g", "s">>,
    <<"m", "u", "s", "i", "c">>,
    <<"h", "i", "t", "s">>,
    <<"b", "e", "s", "t", " ", "o", "f">>,
    <<"p", "l", "a", "y", "l", "i", "s", "t">>,
    <<"a", "l", "b", "u", "m">>,
    <<"l", "i", "v", "e">>,
    <<"a", "c", "o", "u", "s", "t", "i", "c">>,
    <<"r", "e", "m", "i", "x">>,
    <<"c", "o", "v", "e", "r">>>>

genres ==
  <<<<"b", "o", "l", "l", "y", "w", "o", "o", "d">>,
    <<"p", "o", "p">>,
    <<"r", "o", "c", "k">>,
    <<"c", "l", "a", "s", "s", "i", "c", "a", "l">>,
    <<"j", "a", "z", "z">>,
    <<"e", "l", "e", "c", "t", "r", "o", "n", "i", "c">>,
    <<"h", "i", "p", " ", "h", "o", "p">>,
    <<"c", "o", "u", "n", "t", "r", "y">>,
    <<"f", "o", "l", "k">>,
    <<"b", "l", "u", "e", "s">>>>

moods ==
  <<<<"r", "o", "m", "a", "n", "t", "i", "c">>,
    <<"s", "a", "d">>,
    <<"h", "a", "p", "p", "y">>,
    <<"p", "a", "r", "t", "y">>,
    <<"w", "o", "r", "k", "o", "u", "t">>,
    <<"r", "e", "l", "a", "x", "i", "n", "g">>,
    <<"e", "n", "e", "r", "g", "e", "t", "i", "c">>,
    <<"c", "h", "i", "l", "l">>>>

\* The concatenation of the lists of a list.
RECURSIVE Flatten(_)
Flatten(lists) ==
  IF lists = <<>> THEN <<>>
  ELSE Head(lists) \o Flatten(Tail(lists))

Dedupe_Keep(list) == list

\* [...new Set(list)]: the first occurrence of every element, in order.
Dedupe(list) ==
  LET first == {k \in DOMAIN list : \A l \in 1 .. k - 1 : list[l] # list[k]}
  IN  [i \in 1 .. Cardinality(first) |->
         list[CHOOSE k \in first :
                Cardinality({l \in first : l < k}) = i - 1]]

\* list.slice(0, n)
Slice(list, n) ==
  SubSeq(list, 1, Min(n, Len(list)))

\* The array suggestions before duplicates are removed, for an input that
\* is not blank.
Pushed(in) ==
  LET lowerInput == ToLowerCase(in)
      Keyword(keyword) ==
        IF ~Includes(lowerInput, keyword)
          THEN <<in \o <<" ">> \o keyword>>
          ELSE <<>>
      Genre(genre) ==
        IF Includes(lowerInput, FirstWord(genre))
          THEN <<in \o <<" ", "s", "o", "n", "g", "s">>, <<"b", "e", "s", "t", " ">> \o in \o <<" ", "h", "i", "t", "s">>>>
          ELSE <<>>
      Mood(mood) ==
        IF Includes(lowerInput, mood)
          THEN <<in \o <<" ", "s", "o", "n", "g", "s">>, in \o <<" ", "p", "l", "a", "y", "l", "i", "s", "t">>>>
          ELSE <<>>
      artist ==
        IF Len(in) > 2
          THEN <<in \o <<" ", "a", "l", "l", " ", "s", "o", "n", "g", "s">>,
                 in \o <<" ", "g", "r", "e", "a", "t", "e", "s", "t", " ", "h", "i", "t", "s">>,
                 in \o <<" ", "l", "a", "t", "e", "s", "t", " ", "s", "o", "n", "g", "s">>,
                 in \o <<" ", "t", "o", "p", " ", "1", "0">>>>
          ELSE <<>>
  IN  <<in>>
        \o Flatten([k \in DOMAIN musicKeywords |-> Keyword(musicKeywords[k])])
        \o Flatten([k \in DOMAIN genres |-> Genre(genres[k])])
        \o Flatten([k \in DOMAIN moods |-> Mood(moods[k])])
        \o artist

GenerateSuggestions(in) ==
  IF Trim(in) = <<>> THEN <<>>
  ELSE Slice(Dedupe(Pushed(in)), 8)

\* The fragments typed texts are made of.
Fragments ==
  {<<" ">>, <<"P">>, <<"p", "o", "p">>, <<"s", "a", "d">>,
   <<"h", "i", "t", "s", " ", "l", "i", "v", "e", " ", "a", "l", "b", "u", "m", " ", "r", "e", "m", "i", "x">>}

RECURSIVE Texts(_)
Texts(k) ==
  IF k = 0 THEN {<<>>}
  ELSE LET shorter == Texts(k - 1)
       IN  shorter \cup {t \o f : t \in shorter, f \in Fragments}

SuggestInputs == Texts(MaxFragments)

InitSuggest ==
  /\ input \in SuggestInputs
  /\ output = [called |-> FALSE, list |-> <<>>]
  /\ ScrubberIdle
  /\ SearchIdle

\* generateSuggestions is called with the text.
SuggestCall ==
  /\ ~output.called
  /\ output' = [called |-> TRUE, list |-> GenerateSuggestions(input)]
  /\ UNCHANGED <<input, scrubberVars, searchVars>>

NextSuggest ==
  SuggestCall

SpecSuggest == InitSuggest /\ [][NextSuggest]_vars

----------------------------------------------------------------------------
\* SearchBar: the handlers.  searched holds the onSearch calls of the last
\* event, searchEvent its name.

\* The texts typed into the input or returned by the voice hook.
SearchTexts == {<<>>} \cup Fragments

\* generateSuggestions of every text.
SuggestionsOf == [t \in SearchTexts |-> GenerateSuggestions(t)]

Keys == {"ArrowDown", "ArrowUp", "Enter", "Escape"}

InitSearch ==
  /\ SearchInit
  /\ FnIdle
  /\ ScrubberIdle

\* onChange: handleInputChange(value)
InputChange(value) ==
  /\ query' = value
  /\ suggestions' = SuggestionsOf[value]
  /\ showSuggestions' = (Len(value) > 0 /\ Len(SuggestionsOf[value]) > 0)
  /\ selectedSuggestionIndex' = -1
  /\ searched' = <<>>
  /\ searchEvent' = "change"
  /\ UNCHANGED <<blurTimers, scrubberVars, fnVars>>

HandleKeyDown_PastEnd(key) ==
  LET same == [query |-> query, show |-> showSuggestions,
               index |-> selectedSuggestionIndex, out |-> <<>>]
  IN  CASE ~showSuggestions -> same
        [] key = "ArrowDown" ->
             [same EXCEPT !.index =
                IF selectedSuggestionIndex <= Len(suggestions) - 1
                  THEN selectedSuggestionIndex + 1
                  ELSE selectedSuggestionIndex]
        [] key = "ArrowUp" ->
             [same EXCEPT !.index =
                IF selectedSuggestionIndex > 0
                  THEN selectedSuggestionIndex - 1
                  ELSE -1]
        [] key = "Enter" /\ selectedSuggestionIndex >= 0 ->
             LET selectedSuggestion == suggestions[selectedSuggestionIndex + 1]
             IN  [same EXCEPT !.query = selectedSuggestion,
                              !.show = FALSE,
                              !.out = <<selectedSuggestion>>]
        [] key = "Enter" /\ selectedSuggestionIndex < 0 ->
             IF Trim(query) # <<>>
               THEN [same EXCEPT !.show = FALSE, !.out = <<Trim(query)>>]
               ELSE same
        [] key = "Escape" ->
             [same EXCEPT !.show = FALSE, !.index = -1]

\* The state updates and onSearch calls of handleKeyDown.
HandleKeyDown(key) ==
  LET same == [query |-> query, show |-> showSuggestions,
               index |-> selectedSuggestionIndex, out |-> <<>>]
  IN  CASE ~showSuggestions -> same
        [] key = "ArrowDown" ->
             [same EXCEPT !.index =
                IF selectedSuggestionIndex < Len(suggestions) - 1
                  THEN selectedSuggestionIndex + 1
                  ELSE selectedSuggestionIndex]
        [] key = "ArrowUp" ->
             [same EXCEPT !.index =
                IF selectedSuggestionIndex > 0
                  THEN selectedSuggestionIndex - 1
                  ELSE -1]
        [] key = "Enter" /\ selectedSuggestionIndex >= 0 ->
             LET selectedSuggestion == suggestions[selectedSuggestionIndex + 1]
             IN  [same EXCEPT !.query = selectedSuggestion,
                              !.show = FALSE,
                              !.out = <<selectedSuggestion>>]
        [] key = "Enter" /\ selectedSuggestionIndex < 0 ->
             IF Trim(query) # <<>>
               THEN [same EXCEPT !.show = FALSE, !.out = <<Trim(query)>>]
               ELSE same
        [] key = "Escape" ->
             [same EXCEPT !.show = FALSE, !.index = -1]

\* onKeyDown
KeyDown(key) ==
  LET u == HandleKeyDown(key)
  IN  /\ query' = u.query
      /\ showSuggestions' = u.show
      /\ selectedSuggestionIndex' = u.index
      /\ searched' = u.out
      /\ searchEvent' = key
      /\ UNCHANGED <<suggestions, blurTimers, scrubberVars, fnVars>>

\* A click on entry k of the dropdown, which is rendered when showSuggestions
\* holds and there are suggestions: handleSuggestionClick.
SuggestionClick(k) ==
  /\ showSuggestions /\ k \in DOMAIN suggestions
  /\ query' = suggestions[k]
  /\ showSuggestions' = FALSE
  /\ searched' = <<suggestions[k]>>
  /\ searchEvent' = "click"
  /\ UNCHANGED <<suggestions, selectedSuggestionIndex, blurTimers,
                 scrubberVars, fnVars>>

HandleSubmit_Unguarded(q) ==
  [hide |-> TRUE, out |-> <<Trim(q)>>]

\* The updates and onSearch calls of handleSubmit for the query q.
HandleSubmit(q) ==
  LET searchQuery == Trim(q)
  IN  IF searchQuery # <<>>
        THEN [hide |-> TRUE, out |-> <<searchQuery>>]
        ELSE [hide |-> FALSE, out |-> <<>>]

\* onSubmit of the form
Submit ==
  LET u == HandleSubmit(query)
  IN  /\ showSuggestions' = (showSuggestions /\ ~u.hide)
      /\ searched' = u.out
      /\ searchEvent' = "submit"
      /\ UNCHANGED <<query, suggestions, selectedSuggestionIndex, blurTimers,
                     scrubberVars, fnVars>>

\* The voice hook calls handleVoiceResult(transcript).
VoiceResult(transcript) ==
  /\ query' = transcript
  /\ searched' = IF Trim(transcript) # <<>> THEN <<Trim(transcript)>> ELSE <<>>
  /\ searchEvent' = "voice"
  /\ UNCHANGED <<suggestions, showSuggestions, selectedSuggestionIndex,
                 blurTimers, scrubberVars, fnVars>>

\* onFocus
Focus ==
  /\ showSuggestions' = IF Len(query) > 0 /\ Len(suggestions) > 0
                          THEN TRUE
                          ELSE showSuggestions
  /\ searched' = <<>>
  /\ searchEvent' = "focus"
  /\ UNCHANGED <<query, suggestions, selectedSuggestionIndex, blurTimers,
                 scrubberVars, fnVars>>

\* onBlur: setTimeout(() => setShowSuggestions(false), 200)
Blur ==
  /\ blurTimers < MaxTimers
  /\ blurTimers' = blurTimers + 1
  /\ searched' = <<>>
  /\ searchEvent' = "blur"
  /\ UNCHANGED <<query, suggestions, showSuggestions,
                 selectedSuggestionIndex, scrubberVars, fnVars>>

\* A timer started by onBlur fires.
BlurTimerFire ==
  /\ blurTimers > 0
  /\ blurTimers' = blurTimers - 1
  /\ showSuggestions' = FALSE
  /\ searched' = <<>>
  /\ searchEvent' = "blurtimer"
  /\ UNCHANGED <<query, suggestions, selectedSuggestionIndex,
                 scrubberVars, fnVars>>

NextSearch ==
  \/ \E value \in SearchTexts : InputChange(value)
  \/ \E key \in Keys : KeyDown(key)
  \/ \E k \in 1 .. 8 : SuggestionClick(k)
  \/ Submit
  \/ \E transcript \in SearchTexts : VoiceResult(transcript)
  \/ Focus
  \/ Blur
  \/ BlurTimerFire

SpecSearch == InitSearch /\ [][NextSearch]_vars

----------------------------------------------------------------------------
\* Properties.

StartEvents == {"mousedown", "touchstart"}
MoveEvents == {"mousemove", "touchmove"}
ReleaseEvents == {"mouseup", "touchend"}

\* 0 <= v <= dur, for a number v.
InRange(v, dur) == v.k = "fin" /\ 0 <= v.n /\ v.n <= dur * v.d

\* clamp(x / w, 0, 1) * dur, computed by cases on the sign of x and on
\* whether x lies beyond w; for w = 0 the quotient is +Infinity, -Infinity
\* or NaN.
ClaimTime(x, w, dur) ==
  CASE w > 0 /\ x <= 0 -> Int2Num(0)
    [] w > 0 /\ x >= w -> Int2Num(dur)
    [] w > 0 /\ 0 < x /\ x < w -> Fin(x * dur, w)
    [] w = 0 /\ x > 0 -> Int2Num(dur)
    [] w = 0 /\ x < 0 -> Int2Num(0)
    [] w = 0 /\ x = 0 -> NaN

\* C1: every onSeek call passes a time in [0, duration].
SeekInRange ==
  \A i \in DOMAIN emitted : InRange(emitted[i], duration)

ReleaseStopsSeeks ==
  [][ /\ (isDragging /\ mounted /\ lastEvent'.type \in ReleaseEvents)
           => (~isDragging' /\ emitted' = <<>>)
      /\ (~isDragging /\ lastEvent'.type \notin StartEvents)
           => (~isDragging' /\ emitted' = <<>>) ]_vars

\* C3's case: a move after the release of a drag.
ReleaseStopsSeeksWitness ==
  /\ mounted /\ everDown /\ ~isDragging
  /\ lastEvent.type \in MoveEvents
  /\ emitted = <<>>

\* C4: as long as no mousedown or touchstart has reached the widget, no
\* onSeek call is made.
HoverNeverSeeks ==
  ~everDown => emitted = <<>>

\* C4's case: a hover move has set the preview time.
HoverNeverSeeksWitness ==
  /\ ~everDown /\ isHovering /\ Ge0(previewTime)
  /\ lastEvent.type = "mousemove"

\* C5: the widget has listeners on document only while it is dragging; while
\* it is mounted and dragging it has exactly the four listeners of the
\* latest render, also after a change of duration.
ListenersOnlyWhileDragging ==
  /\ ~isDragging => docListeners = <<>>
  /\ (isDragging /\ mounted) => docListeners = DragListeners(TRUE, duration)

\* C5's case: a release has ended a drag.
ListenersOnlyWhileDraggingWitness ==
  /\ mounted /\ ~isDragging
  /\ lastEvent.type \in ReleaseEvents /\ lastEvent.ran = 1

\* C6: unmounting leaves no listener on document, and no event after the
\* unmount makes an onSeek call or updates the widget's state.
UnmountSilences ==
  [][ /\ ~mounted' => docListeners' = <<>>
      /\ ~mounted => /\ emitted' = <<>>
                     /\ isDragging' = isDragging
                     /\ isHovering' = isHovering
                     /\ previewTime' = previewTime ]_vars

\* C6's case: the widget was unmounted during a drag and the pointer was then
\* moved or released.
UnmountSilencesWitness ==
  /\ ~mounted /\ isDragging
  /\ lastEvent.type \in MoveEvents \cup ReleaseEvents

\* C7 as stated: a release during a drag leaves the widget neither dragging
\* nor hovering, with no preview time and no listeners.
ReleaseToIdle ==
  [][ (isDragging /\ mounted /\ lastEvent'.type \in ReleaseEvents)
      => /\ ~isDragging' /\ ~isHovering'
         /\ previewTime' = MinusOne
         /\ docListeners' = <<>> ]_vars

\* C7 as amended: a release during a drag ends the drag, clears the preview
\* time and removes the listeners, and leaves isHovering as it was.
ReleaseEndsDrag ==
  [][ (isDragging /\ mounted /\ lastEvent'.type \in ReleaseEvents)
      => /\ ~isDragging'
         /\ isHovering' = isHovering
         /\ previewTime' = MinusOne
         /\ docListeners' = <<>> ]_vars

\* C7's case: a drag was released with the pointer over the widget.
ReleaseEndsDragWitness ==
  /\ mounted /\ ~isDragging /\ isHovering /\ pointerOver
  /\ lastEvent.type = "mouseup" /\ lastEvent.ran = 1

\* C8: a widget that is neither hovering nor dragging has no preview time.
IdleHasNoPreview ==
  (~isHovering /\ ~isDragging) => previewTime = MinusOne

\* C8's case: the pointer has left the widget, or a drag was released
\* outside it.
IdleHasNoPreviewWitness ==
  /\ mounted /\ ~isHovering /\ ~isDragging /\ everDown
  /\ lastEvent.type = "mouseleave"

\* C9: a preview time, when there is one, lies in [0, duration].
PreviewInRange ==
  previewTime # MinusOne => InRange(previewTime, duration)

\* C10: a render that draws the hover line is not a render of a dragging
\* widget.
HoverLineNotWhileDragging ==
  canvas.hoverLine => ~canvas.dragStyle

\* progressOf(t, dur) of the specification, for a finite t >= 0:
\* clamp(t / dur, 0, 1) when dur > 0, else 0.
ClaimProgressOf(t, dur) ==
  IF dur <= 0 THEN Int2Num(0)
  ELSE IF t.n >= dur * t.d THEN Int2Num(1)
  ELSE Fin(t.n, t.d * dur)

\* C11: the progress of a render is clamp(currentTime / duration, 0, 1) when
\* duration > 0 and 0 otherwise, and the playhead lies within [0, width].
ProgressClamped ==
  output # <<>> =>
    /\ output.progress = ClaimProgressOf(Int2Num(input.currentTime),
                                          input.duration)
    /\ InRange(output.playheadX, input.width)

\* The colour the claim gives bar i (from 0) of n.
ClaimBarColor(i, n, in) ==
  LET progress == ClaimProgressOf(Int2Num(in.currentTime), in.duration)
      hoverProgress == ClaimProgressOf(in.previewTime, in.duration)
      \* i / n <= q and q < i / n, by cross multiplication
      AtMost(q) == i * q.d <= q.n * n
      Above(q) == q.n * n < i * q.d
  IN  IF in.previewTime # MinusOne /\ Above(progress) /\ AtMost(hoverProgress)
        THEN "preview"
        ELSE IF AtMost(progress) THEN "played" ELSE "unplayed"

\* C12: every bar of a render has the colour the claim gives it, and with no
\* preview, duration 200 and currentTime 50, exactly the bars of the 150 with
\* i / 150 <= 0.25 are played and the others unplayed.
BarColours ==
  output # <<>> =>
    /\ \A b \in 1 .. BarCount :
         output.colors[b] = ClaimBarColor(b - 1, BarCount, input)
    /\ \A i \in 0 .. 149 :
         BarColor(i, 150, Progress(50, 200), HoverProgress(MinusOne, 200))
           = IF 4 * i <= 150 THEN "played" ELSE "unplayed"

\* C12's case: a render with a preview ahead of the playhead has coloured a
\* bar as preview and another as played.
BarColoursWitness ==
  /\ output # <<>>
  /\ \E b \in 1 .. BarCount : output.colors[b] = "preview"
  /\ \E b \in 1 .. BarCount : output.colors[b] = "played"

\* C13: on a widget of width 0 the progress of every position is 0, so a
\* move delivered during a drag makes the one call onSeek(0).
ZeroWidthSeeksZero ==
  ( /\ mounted /\ width = 0
    /\ lastEvent.type \in MoveEvents /\ lastEvent.ran = 1 )
  => emitted = <<Int2Num(0)>>

\* The number a string of decimal digits writes, -1 if it is not one.
RECURSIVE ReadNat(_)
ReadNat(str) ==
  IF str = <<>> THEN -1
  ELSE LET last == str[Len(str)]
           digit == IF \E v \in 1 .. 10 : Digits[v] = last
                      THEN (CHOOSE v \in 1 .. 10 : Digits[v] = last) - 1
                      ELSE -1
           front == IF Len(str) = 1 THEN 0 ELSE ReadNat(SubSeq(str, 1, Len(str) - 1))
       IN  IF digit < 0 \/ front < 0 THEN -1 ELSE 10 * front + digit

WholeSeconds ==
  input.k = "fin" /\ input.d = 1 /\ input.n >= 0

\* C14: for a whole number s >= 0 of seconds, formatTime(s) is floor(s / 60)
\* in decimal with no leading zero, a colon, and s mod 60 in two digits;
\* formatTime(0) = "0:00", formatTime(65) = "1:05", formatTime(3600) = "60:00".
FormatWhole ==
  /\ (output # <<>> /\ WholeSeconds) =>
        LET len == Len(output)
            mins == SubSeq(output, 1, len - 3)
            secs == SubSeq(output, len - 1, len)
        IN  /\ len >= 4
            /\ output[len - 2] = ":"
            /\ ReadNat(mins) = input.n \div 60
            /\ Len(mins) = 1 \/ mins[1] # "0"
            /\ ReadNat(secs) = input.n % 60
  /\ FormatTime(Int2Num(0)) = <<"0", ":", "0", "0">>
  /\ FormatTime(Int2Num(65)) = <<"1", ":", "0", "5">>
  /\ FormatTime(Int2Num(3600)) = <<"6", "0", ":", "0", "0">>

\* C14's case: 65 seconds were formatted, with a padded seconds field.
FormatWholeWitness ==
  /\ input = Int2Num(65)
  /\ output = <<"1", ":", "0", "5">>

\* C15: formatTime of undefined, NaN, +Infinity or -Infinity is "0:00".
FormatNonFinite ==
  (output # <<>> /\ input \in {Undefined, NaN, PosInf, NegInf})
  => output = <<"0", ":", "0", "0">>

\* C16: the series generateWaveform stores has exactly BarCount values, and
\* every value it pushes lies in [0.1, 1.0] (here in thousandths), whatever
\* the random draws.
GeneratedSeries ==
  /\ \A b \in DOMAIN output : output[b] >= 100 /\ output[b] <= 1000
  /\ input.done =>
       /\ Len(waveformData) = BarCount
       /\ \A b \in 1 .. BarCount :
            waveformData[b] >= 100 /\ waveformData[b] <= 1000

\* C16's case: a series was stored whose draws reached the upper limit in
\* one bar and not in another.
GeneratedSeriesWitness ==
  /\ input.done
  /\ \E b \in DOMAIN waveformData : waveformData[b] = 1000
  /\ \E b \in DOMAIN waveformData : waveformData[b] < 1000

\* C17: the list generateSuggestions returns has at most 8 entries and no
\* string twice, and is empty when the text is empty or only whitespace.
SuggestionsBounded ==
  output.called =>
    /\ Len(output.list) <= 8
    /\ \A k, l \in DOMAIN output.list :
         output.list[k] = output.list[l] => k = l
    /\ (\A c \in DOMAIN input : input[c] = " ") => output.list = <<>>

\* C17's case: suggestions were generated for a text whose first 8 pushed
\* strings held a duplicate, so that the list returned is not those 8.
SuggestionsBoundedWitness ==
  /\ output.called
  /\ Len(output.list) = 8
  /\ Slice(Pushed(input), 8) # output.list

\* C18: no step but a remount changes the waveform series: pointer and touch
\* events, changes of currentTime and duration, resizes, timers and unmounts
\* leave it as generated.
SeriesImmutable ==
  [][lastEvent'.type # "remount" => waveformData' = waveformData]_vars

\* C18's case: a widget holding the loud series is being dragged and a
\* change of currentTime has just re-rendered it.
SeriesImmutableWitness ==
  /\ mounted
  /\ lastEvent.type = "timechange"
  /\ waveformData = UniformSeries(LoudDraw)
  /\ isDragging

\* C19: once no resize timer is pending, the canvas shows the drawing of the
\* widget's current state at its current width.
CanvasCurrent ==
  (mounted /\ timers = {}) => canvas = DrawWaveform(Closure, width)

\* C20: no event of the search bar calls onSearch with an empty or
\* whitespace-only query.
SearchNeverBlank ==
  \A k \in DOMAIN searched :
    \E c \in DOMAIN searched[k] : searched[k][c] # " "

\* C20's case: Enter on a highlighted suggestion has called onSearch with
\* it and made it the query.
SearchNeverBlankWitness ==
  /\ searchEvent = "Enter"
  /\ selectedSuggestionIndex >= 0
  /\ searched = <<suggestions[selectedSuggestionIndex + 1]>>
  /\ query = searched[1]

\* C21: in every state of the search bar, -1 <= selectedSuggestionIndex <=
\* suggestions.length - 1, and an Enter that searched with an entry selected
\* has passed the suggestion at that index.
SelectedIndexInRange ==
  /\ selectedSuggestionIndex >= -1
  /\ selectedSuggestionIndex <= Len(suggestions) - 1
  /\ ( /\ searchEvent = "Enter"
       /\ selectedSuggestionIndex >= 0
       /\ searched # <<>> )
     => \E k \in DOMAIN suggestions :
          k = selectedSuggestionIndex + 1 /\ searched = <<suggestions[k]>>

\* C21's case: ArrowDown was pressed with the dropdown open and the last
\* suggestion is selected.
SelectedIndexInRangeWitness ==
  /\ searchEvent = "ArrowDown"
  /\ showSuggestions
  /\ Len(suggestions) > 1
  /\ selectedSuggestionIndex = Len(suggestions) - 1

====
